---- MODULE Spec2Model ----
(***************************************************************************)
(* A model of the Chinese Chess rules engine of src/src/game.rs (Board,    *)
(* get_piece, move_piece, is_valid_move, count_obstacles) and of the       *)
(* Restart handler of src/src/main.rs.                                     *)
(*                                                                         *)
(* Spec      plays games from Board::new() through move_piece calls whose  *)
(*           arguments are drawn from Squares, with Restart once the game  *)
(*           is won.                                                       *)
(* SpecRule  draws a board and one pair of arguments (from, to) and        *)
(*           applies get_piece, is_valid_move or move_piece to them once.  *)
(***************************************************************************)
EXTENDS Integers, FiniteSets, Sequences, TLC

VARIABLES grid, turn, selected, state, ret, valid, got, args, nmoves, restarted, aborted

vars == <<grid, turn, selected, state, ret, valid, got, args, nmoves, restarted, aborted>>

(***************************************************************************)
(* Bounds of the model.                                                    *)
(***************************************************************************)
\* successful moves played on one Board
MaxMoves == 6
\* largest |to.x - from.x| and |to.y - from.y| of the calls SpecRule draws
MaxDist == 3

(***************************************************************************)
(* Data model: Color, PieceType, Piece, Pos, GameState.                    *)
(***************************************************************************)
Color == {"Red", "Black"}

Opposite(c) == IF c = "Red" THEN "Black" ELSE "Red"

PieceType == {"General", "Advisor", "Elephant", "Horse", "Chariot", "Cannon", "Soldier"}

Piece(c, pt) == [color |-> c, piece_type |-> pt]

\* Option<Piece>::None
None == [color |-> "None", piece_type |-> "None"]

\* the outcome of an out-of-range index into grid (a Rust panic)
Panic == [color |-> "panic", piece_type |-> "panic"]

Pos(px, py) == [x |-> px, y |-> py]

Playing == [tag |-> "Playing", winner |-> "None"]

Won(c) == [tag |-> "Won", winner |-> c]

\* the rows (y) and columns (x) of grid: [[Option<Piece>; 9]; 10]
Rows == 0..9

Cols == 0..8

Cells == {Pos(px, py) : px \in Cols, py \in Rows}

\* grid[y][x]; an index outside the array panics
Index(g, iy, ix) == IF iy \in Rows /\ ix \in Cols THEN g[iy][ix] ELSE Panic

Abs(n) == IF n < 0 THEN -n ELSE n

(***************************************************************************)
(* Board::new                                                              *)
(***************************************************************************)
\* the pieces array of setup_row, x = 0..8
SetupRow == <<"Chariot", "Horse", "Elephant", "Advisor", "General",
              "Advisor", "Elephant", "Horse", "Chariot">>

\* (0..9) without step_by(2): a Soldier on every column
SoldierColsAll == Cols

\* (0..9).step_by(2)
SoldierCols == {px \in Cols : px % 2 = 0}

NewGrid ==
    [py \in Rows |-> [px \in Cols |->
        IF py = 0 THEN Piece("Black", SetupRow[px + 1])
        ELSE IF py = 2 /\ px \in {1, 7} THEN Piece("Black", "Cannon")
        ELSE IF py = 3 /\ px \in SoldierCols THEN Piece("Black", "Soldier")
        ELSE IF py = 9 THEN Piece("Red", SetupRow[px + 1])
        ELSE IF py = 7 /\ px \in {1, 7} THEN Piece("Red", "Cannon")
        ELSE IF py = 6 /\ px \in SoldierCols THEN Piece("Red", "Soldier")
        ELSE None]]

(***************************************************************************)
(* Board::get_piece                                                        *)
(***************************************************************************)
\* get_piece with <= for < in the bounds test
GetPieceOffByOne(g, pos) ==
    IF pos.x <= 9 /\ pos.y <= 10 THEN Index(g, pos.y, pos.x) ELSE None

GetPiece(g, pos) ==
    IF pos.x < 9 /\ pos.y < 10 THEN Index(g, pos.y, pos.x) ELSE None

(***************************************************************************)
(* Board::count_obstacles: the number of occupied cells strictly between   *)
(* from and to, -1 when an index is out of range (panic).                  *)
(***************************************************************************)
Min(a, b) == IF a < b THEN a ELSE b

Max(a, b) == IF a < b THEN b ELSE a

\* count_obstacles with the ranges min..max, the lower end cell included
CountObstaclesInclusive(g, from, to) ==
    LET path == IF from.x = to.x
                THEN {Pos(from.x, py) : py \in Min(from.y, to.y)..(Max(from.y, to.y) - 1)}
                ELSE {Pos(px, from.y) : px \in Min(from.x, to.x)..(Max(from.x, to.x) - 1)}
    IN  IF \E c \in path : Index(g, c.y, c.x) = Panic
        THEN -1
        ELSE Cardinality({c \in path : Index(g, c.y, c.x) # None})

CountObstacles(g, from, to) ==
    LET path == IF from.x = to.x
                THEN {Pos(from.x, py) : py \in (Min(from.y, to.y) + 1)..(Max(from.y, to.y) - 1)}
                ELSE {Pos(px, from.y) : px \in (Min(from.x, to.x) + 1)..(Max(from.x, to.x) - 1)}
    IN  IF \E c \in path : Index(g, c.y, c.x) = Panic
        THEN -1
        ELSE Cardinality({c \in path : Index(g, c.y, c.x) # None})

(***************************************************************************)
(* Board::is_valid_move, one operator per arm of the match on piece_type.  *)
(* Results are "true", "false" or "panic".                                 *)
(***************************************************************************)
Bool(b) == IF b THEN "true" ELSE "false"

\* the palace rows and the river side of a colour, as the arms test them
\* the palace test without the rows: no y leaves the palace
LeavesPalaceNever(c, to) == FALSE

LeavesPalace(c, to) == IF c = "Red" THEN to.y < 7 ELSE to.y > 2

\* the river test of lines 232-243 left out
CrossesRiverNever(c, to) == FALSE

CrossesRiver(c, to) == IF c = "Red" THEN to.y < 5 ELSE to.y > 4

GeneralMove(g, piece, from, to, dx, dy) ==
    IF dx + dy # 1 THEN "false"
    ELSE IF to.x < 3 \/ to.x > 5 THEN "false"
    ELSE IF LeavesPalace(piece.color, to) THEN "false"
    ELSE "true"

\* the Advisor arm without the column test of lines 210-212
AdvisorMoveAnyColumn(g, piece, from, to, dx, dy) ==
    IF dx # 1 \/ dy # 1 THEN "false"
    ELSE IF LeavesPalace(piece.color, to) THEN "false"
    ELSE "true"

AdvisorMove(g, piece, from, to, dx, dy) ==
    IF dx # 1 \/ dy # 1 THEN "false"
    ELSE IF to.x < 3 \/ to.x > 5 THEN "false"
    ELSE IF LeavesPalace(piece.color, to) THEN "false"
    ELSE "true"

\* the Elephant arm without the check of the eye (lines 244-249)
ElephantMoveNoEye(g, piece, from, to, dx, dy) ==
    IF dx # 2 \/ dy # 2 THEN "false"
    ELSE IF CrossesRiver(piece.color, to) THEN "false"
    ELSE "true"

ElephantMove(g, piece, from, to, dx, dy) ==
    IF dx # 2 \/ dy # 2 THEN "false"
    ELSE IF CrossesRiver(piece.color, to) THEN "false"
    ELSE LET eye_x == (from.x + to.x) \div 2
             eye_y == (from.y + to.y) \div 2
             eye == Index(g, eye_y, eye_x)
         IN  IF eye = Panic THEN "panic"
             ELSE IF eye # None THEN "false"
             ELSE "true"

\* the Horse arm without the check of the leg
HorseMoveNoLeg(g, piece, from, to, dx, dy) ==
    Bool((dx = 1 /\ dy = 2) \/ (dx = 2 /\ dy = 1))

HorseMove(g, piece, from, to, dx, dy) ==
    IF ~((dx = 1 /\ dy = 2) \/ (dx = 2 /\ dy = 1)) THEN "false"
    ELSE LET leg_x == IF dx = 2 THEN (from.x + to.x) \div 2 ELSE from.x
             leg_y == IF dy = 2 THEN (from.y + to.y) \div 2 ELSE from.y
             leg == Index(g, leg_y, leg_x)
         IN  IF leg = Panic THEN "panic"
             ELSE IF leg # None THEN "false"
             ELSE "true"

ChariotMove(g, piece, from, to, dx, dy) ==
    IF dx # 0 /\ dy # 0 THEN "false"
    ELSE LET obstacles == CountObstacles(g, from, to)
         IN  IF obstacles < 0 THEN "panic" ELSE Bool(obstacles = 0)

CannonMove(g, piece, from, to, dx, dy) ==
    IF dx # 0 /\ dy # 0 THEN "false"
    ELSE LET obstacles == CountObstacles(g, from, to)
         IN  IF obstacles < 0 THEN "panic"
             ELSE IF GetPiece(g, to) = Panic THEN "panic"
             ELSE IF GetPiece(g, to) # None THEN Bool(obstacles = 1)
             ELSE Bool(obstacles = 0)

\* the Soldier arm without the river tests of lines 294 and 302
SoldierMoveSideways(g, piece, from, to, dx, dy) ==
    IF dx + dy # 1 THEN "false"
    ELSE IF piece.color = "Red"
         THEN Bool(~(to.y > from.y))
         ELSE Bool(~(to.y < from.y))

SoldierMove(g, piece, from, to, dx, dy) ==
    IF dx + dy # 1 THEN "false"
    ELSE IF piece.color = "Red"
         THEN IF to.y > from.y THEN "false"
              ELSE IF from.y >= 5 /\ dx # 0 THEN "false"
              ELSE "true"
         ELSE IF to.y < from.y THEN "false"
              ELSE IF from.y <= 4 /\ dx # 0 THEN "false"
              ELSE "true"

\* is_valid_move without the bounds test of to (lines 163-165)
IsValidMoveAnyTo(g, from, to) ==
    IF from = to THEN "false"
    ELSE LET piece == GetPiece(g, from)
             target == GetPiece(g, to)
         IN  IF piece = Panic THEN "panic"
             ELSE IF piece = None THEN "false"
             ELSE IF target = Panic THEN "panic"
             ELSE IF target # None /\ target.color = piece.color THEN "false"
             ELSE LET dx == Abs(to.x - from.x)
                      dy == Abs(to.y - from.y)
                  IN  CASE piece.piece_type = "General" -> GeneralMove(g, piece, from, to, dx, dy)
                        [] piece.piece_type = "Advisor" -> AdvisorMove(g, piece, from, to, dx, dy)
                        [] piece.piece_type = "Elephant" -> ElephantMove(g, piece, from, to, dx, dy)
                        [] piece.piece_type = "Horse" -> HorseMove(g, piece, from, to, dx, dy)
                        [] piece.piece_type = "Chariot" -> ChariotMove(g, piece, from, to, dx, dy)
                        [] piece.piece_type = "Cannon" -> CannonMove(g, piece, from, to, dx, dy)
                        [] piece.piece_type = "Soldier" -> SoldierMove(g, piece, from, to, dx, dy)

\* is_valid_move without the test of lines 172-177: own pieces may be taken
IsValidMoveFriendlyFire(g, from, to) ==
    IF from = to THEN "false"
    ELSE IF to.x >= 9 \/ to.y >= 10 THEN "false"
    ELSE LET piece == GetPiece(g, from)
             target == GetPiece(g, to)
         IN  IF piece = Panic THEN "panic"
             ELSE IF piece = None THEN "false"
             ELSE IF target = Panic THEN "panic"
             ELSE LET dx == Abs(to.x - from.x)
                      dy == Abs(to.y - from.y)
                  IN  CASE piece.piece_type = "General" -> GeneralMove(g, piece, from, to, dx, dy)
                        [] piece.piece_type = "Advisor" -> AdvisorMove(g, piece, from, to, dx, dy)
                        [] piece.piece_type = "Elephant" -> ElephantMove(g, piece, from, to, dx, dy)
                        [] piece.piece_type = "Horse" -> HorseMove(g, piece, from, to, dx, dy)
                        [] piece.piece_type = "Chariot" -> ChariotMove(g, piece, from, to, dx, dy)
                        [] piece.piece_type = "Cannon" -> CannonMove(g, piece, from, to, dx, dy)
                        [] piece.piece_type = "Soldier" -> SoldierMove(g, piece, from, to, dx, dy)

IsValidMove(g, from, to) ==
    IF from = to THEN "false"
    ELSE IF to.x >= 9 \/ to.y >= 10 THEN "false"
    ELSE LET piece == GetPiece(g, from)
             target == GetPiece(g, to)
         IN  IF piece = Panic THEN "panic"
             ELSE IF piece = None THEN "false"
             ELSE IF target = Panic THEN "panic"
             ELSE IF target # None /\ target.color = piece.color THEN "false"
             ELSE LET dx == Abs(to.x - from.x)
                      dy == Abs(to.y - from.y)
                  IN  CASE piece.piece_type = "General" -> GeneralMove(g, piece, from, to, dx, dy)
                        [] piece.piece_type = "Advisor" -> AdvisorMove(g, piece, from, to, dx, dy)
                        [] piece.piece_type = "Elephant" -> ElephantMove(g, piece, from, to, dx, dy)
                        [] piece.piece_type = "Horse" -> HorseMove(g, piece, from, to, dx, dy)
                        [] piece.piece_type = "Chariot" -> ChariotMove(g, piece, from, to, dx, dy)
                        [] piece.piece_type = "Cannon" -> CannonMove(g, piece, from, to, dx, dy)
                        [] piece.piece_type = "Soldier" -> SoldierMove(g, piece, from, to, dx, dy)

(***************************************************************************)
(* Board::move_piece: its return value ("true", "false" or "panic") and    *)
(* the state, grid and turn a successful call leaves.                      *)
(***************************************************************************)
\* move_piece without the check of state (line 133)
MovePieceRetAnyState(g, trn, st, from, to) ==
    LET piece == GetPiece(g, from)
    IN  IF piece = Panic THEN "panic"
        ELSE IF piece = None THEN "false"
        ELSE IF piece.color # trn THEN "false"
        ELSE IsValidMove(g, from, to)

\* move_piece without the check of the colour of the piece (line 137)
MovePieceRetAnyColor(g, trn, st, from, to) ==
    IF st # Playing THEN "false"
    ELSE LET piece == GetPiece(g, from)
         IN  IF piece = Panic THEN "panic"
             ELSE IF piece = None THEN "false"
             ELSE IsValidMove(g, from, to)

MovePieceRet(g, trn, st, from, to) ==
    IF st # Playing THEN "false"
    ELSE LET piece == GetPiece(g, from)
         IN  IF piece = Panic THEN "panic"
             ELSE IF piece = None THEN "false"
             ELSE IF piece.color # trn THEN "false"
             ELSE LET ok == IsValidMove(g, from, to)
                  IN  IF ok # "true" THEN ok
                      ELSE IF GetPiece(g, to) = Panic THEN "panic"
                      ELSE IF Index(g, to.y, to.x) = Panic
                              \/ Index(g, from.y, from.x) = Panic THEN "panic"
                      ELSE "true"

\* move_piece declaring the side that lost its General the winner
MovePieceStateLoser(g, trn, st, to) ==
    LET target == GetPiece(g, to)
    IN  IF target # None /\ target.piece_type = "General" THEN Won(Opposite(trn)) ELSE st

\* move_piece without lines 141-145: taking a General does not end the game
MovePieceStateNever(g, trn, st, to) == st

MovePieceState(g, trn, st, to) ==
    LET target == GetPiece(g, to)
    IN  IF target # None /\ target.piece_type = "General" THEN Won(trn) ELSE st

\* move_piece without line 148: the source cell keeps its piece
MovePieceGridCopy(g, from, to) ==
    [g EXCEPT ![to.y][to.x] = g[from.y][from.x]]

\* move_piece writing the piece taken back on the source cell
MovePieceGridSwap(g, from, to) ==
    [g EXCEPT ![to.y][to.x] = g[from.y][from.x], ![from.y][from.x] = g[to.y][to.x]]

MovePieceGrid(g, from, to) ==
    [g EXCEPT ![to.y][to.x] = g[from.y][from.x], ![from.y][from.x] = None]

\* move_piece without lines 150-152: the turn never advances
MovePieceTurnKept(trn, st) == trn

MovePieceTurn(trn, st) == IF st = Playing THEN Opposite(trn) ELSE trn

(***************************************************************************)
(* The calls of Spec: the arguments of move_piece are drawn from Squares,  *)
(* the cells of the centre file, those of the Cannons, Advisors and        *)
(* Generals that fight over it, those of a Red Elephant on its way to the  *)
(* river, and two coordinates outside the grid.                            *)
(***************************************************************************)
Squares ==
    {Pos(4, 6), Pos(4, 5), Pos(4, 4), Pos(4, 3), Pos(1, 7), Pos(4, 7),
     Pos(3, 0), Pos(4, 1), Pos(4, 0), Pos(9, 4), Pos(4, 10),
     Pos(1, 2), Pos(4, 2), Pos(3, 9), Pos(4, 8), Pos(4, 9),
     Pos(2, 9), Pos(2, 5)}

Init ==
    /\ grid = NewGrid
    /\ turn = "Red"
    /\ selected = <<>>
    /\ state = Playing
    /\ ret = "none"
    /\ valid = "none"
    /\ got = <<>>
    /\ args = <<>>
    /\ nmoves = 0
    /\ restarted = FALSE
    /\ aborted = FALSE

\* the body of move_piece(from, to) on the current board
MovePieceBoard(from, to) ==
    /\ ~aborted
    /\ LET r == MovePieceRet(grid, turn, state, from, to)
           st == MovePieceState(grid, turn, state, to)
       IN  IF r = "panic"
           THEN /\ aborted' = TRUE
                /\ UNCHANGED <<grid, turn, state, ret, nmoves>>
           ELSE IF r = "true"
           THEN /\ nmoves < MaxMoves
                /\ state' = st
                /\ grid' = MovePieceGrid(grid, from, to)
                /\ turn' = MovePieceTurn(turn, st)
                /\ ret' = "true"
                /\ nmoves' = nmoves + 1
                /\ UNCHANGED aborted
           ELSE /\ ret' = "false"
                /\ UNCHANGED <<grid, turn, state, nmoves, aborted>>
    /\ UNCHANGED <<valid, got, args, restarted>>

\* move_piece(from, to): no line of it assigns selected
MovePiece(from, to) == MovePieceBoard(from, to) /\ UNCHANGED selected

\* ChessApp::update, the Restart button: shown once the game is won
Restart ==
    /\ ~aborted
    /\ state # Playing
    /\ grid' = NewGrid
    /\ turn' = "Red"
    /\ selected' = <<>>
    /\ state' = Playing
    /\ ret' = "none"
    /\ nmoves' = 0
    /\ restarted' = TRUE
    /\ UNCHANGED <<valid, got, args, aborted>>

Move == \E from \in Squares, to \in Squares : MovePiece(from, to)

Next == Move \/ Restart

Spec == Init /\ [][Next]_vars

(***************************************************************************)
(* The application: mouse clicks on the board and the Restart button.      *)
(* A click with a selection calls move_piece(selected, clicked_pos); the   *)
(* clicks fall on Squares, the two coordinates outside the grid included.  *)
(***************************************************************************)
\* the piece of the side to move on clicked_pos, if any
OwnPiece(g, trn, clicked_pos) == GetPiece(g, clicked_pos).color = trn

\* the selection left by a click made with a selection, r being what
\* move_piece returned; a successful move keeps following the piece
ClickSelectedFollows(g, trn, r, clicked_pos) ==
    IF r = "true" \/ OwnPiece(g, trn, clicked_pos) THEN <<clicked_pos>> ELSE <<>>

\* the selection left by a click made with a selection, r being what
\* move_piece returned
ClickSelected(g, trn, r, clicked_pos) ==
    IF r = "true"
    THEN <<>>
    ELSE IF OwnPiece(g, trn, clicked_pos) THEN <<clicked_pos>> ELSE <<>>

\* the selection left by a click made without a selection
ClickFirst(g, trn, sel, clicked_pos) ==
    IF OwnPiece(g, trn, clicked_pos) THEN <<clicked_pos>> ELSE sel

\* one click of the primary button on the cell clicked_pos
Click(clicked_pos) ==
    /\ ~aborted
    /\ IF clicked_pos.x >= 0 /\ clicked_pos.x < 9 /\ clicked_pos.y >= 0 /\ clicked_pos.y < 10
       THEN IF selected # <<>>
            THEN LET r == MovePieceRet(grid, turn, state, selected[1], clicked_pos)
                 IN  /\ MovePieceBoard(selected[1], clicked_pos)
                     /\ selected' = IF r = "panic"
                                    THEN selected
                                    ELSE ClickSelected(grid, turn, r, clicked_pos)
            ELSE /\ selected' = ClickFirst(grid, turn, selected, clicked_pos)
                 /\ UNCHANGED <<grid, turn, state, ret, valid, got, args,
                                nmoves, restarted, aborted>>
       ELSE UNCHANGED vars

Clicks == \E clicked_pos \in Squares : Click(clicked_pos)

AppNext == Clicks \/ Restart

SpecApp == Init /\ [][AppNext]_vars

(***************************************************************************)
(* SpecRule: one call on a drawn board.  The board holds both Generals at  *)
(* home, the piece subj on from, and on the cells the rules look at (the   *)
(* path between from and to, the Horse leg, the Elephant eye, to itself)   *)
(* any choice of empty and occupied.  Every piece stands where play from   *)
(* Board::new() can bring it, and no colour has more than two of a kind.   *)
(***************************************************************************)
Home(c) == IF c = "Red" THEN Pos(4, 9) ELSE Pos(4, 0)

\* the row y seen from the side of colour c (Black's rows are 0..4)
Rank(c, py) == IF c = "Red" THEN 9 - py ELSE py

Stand(p) ==
    CASE p.piece_type = "General" ->
           {c \in Cells : c.x \in 3..5 /\ Rank(p.color, c.y) \in 0..2}
      [] p.piece_type = "Advisor" ->
           {c \in Cells : <<c.x, Rank(p.color, c.y)>> \in
                            {<<3, 0>>, <<5, 0>>, <<4, 1>>, <<3, 2>>, <<5, 2>>}}
      [] p.piece_type = "Elephant" ->
           {c \in Cells : <<c.x, Rank(p.color, c.y)>> \in
                            {<<2, 0>>, <<6, 0>>, <<0, 2>>, <<4, 2>>, <<8, 2>>, <<2, 4>>, <<6, 4>>}}
      [] p.piece_type = "Soldier" ->
           {c \in Cells : \/ Rank(p.color, c.y) \in 3..4 /\ c.x % 2 = 0
                          \/ Rank(p.color, c.y) >= 5 /\ c # Home(Opposite(p.color))}
      [] OTHER -> Cells \ {Home("Red"), Home("Black")}

Subjects == {Piece(c, pt) : c \in Color, pt \in PieceType}

\* from without a piece: an empty cell and two coordinates outside the grid
NoSubject == {Pos(4, 4), Pos(9, 0), Pos(0, 10)}

Targets(from) ==
    {Pos(px, py) : px \in Max(0, from.x - MaxDist)..(from.x + MaxDist),
                   py \in Max(0, from.y - MaxDist)..(from.y + MaxDist)}

Relevant(from, to) ==
    LET ddx == Abs(to.x - from.x)
        ddy == Abs(to.y - from.y)
    IN  {c \in Cells :
           \/ /\ ddx = 0
              /\ c.x = from.x
              /\ Min(from.y, to.y) < c.y
              /\ c.y < Max(from.y, to.y)
           \/ /\ ddy = 0
              /\ c.y = from.y
              /\ Min(from.x, to.x) < c.x
              /\ c.x < Max(from.x, to.x)
           \/ /\ ddx = 2
              /\ ddy \in {1, 2}
              /\ 2 * c.x = from.x + to.x
              /\ c.y = IF ddy = 1 THEN from.y ELSE (from.y + to.y) \div 2
           \/ /\ ddx = 1
              /\ ddy = 2
              /\ c.x = from.x
              /\ 2 * c.y = from.y + to.y}

DestKinds(subj, from, to) ==
    IF subj # None /\ to \in Cells /\ to # from THEN {"empty", "friend", "opp"} ELSE {"empty"}

\* the k-th piece that stands in the way: Chariots first, then Cannons
Blocker(c, k) == Piece(c, IF k < 2 THEN "Chariot" ELSE "Cannon")

RuleBoard(subj, from, to, occ, dest) ==
    LET own == IF subj = None THEN "Red" ELSE subj.color
        before(c) == Cardinality({d \in occ : d.y < c.y \/ (d.y = c.y /\ d.x < c.x)})
    IN  [py \in Rows |-> [px \in Cols |->
            LET c == Pos(px, py)
            IN  IF subj # None /\ c = from THEN subj
                ELSE IF \E k \in Color : c = Home(k) /\ subj # Piece(k, "General")
                     THEN Piece(IF c = Home("Red") THEN "Red" ELSE "Black", "General")
                ELSE IF c = to /\ dest = "friend" THEN Piece(own, "Horse")
                ELSE IF c = to /\ dest = "opp" THEN Piece(Opposite(own), "Horse")
                ELSE IF c \in occ /\ c # to THEN Blocker(Opposite(own), before(c))
                ELSE None]]

RuleInit ==
    /\ \E subj \in Subjects \cup {None} :
         \E from \in (IF subj = None THEN NoSubject ELSE Stand(subj)) :
           \E to \in Targets(from) :
             \E occ \in SUBSET Relevant(from, to), dest \in DestKinds(subj, from, to) :
               /\ grid = RuleBoard(subj, from, to, occ, dest)
               /\ turn = (IF subj = None THEN "Red" ELSE subj.color)
               /\ args = <<from, to>>
    /\ selected = <<>>
    /\ state = Playing
    /\ ret = "none"
    /\ valid = "none"
    /\ got = <<>>
    /\ nmoves = 0
    /\ restarted = FALSE
    /\ aborted = FALSE

\* no call has been applied to the drawn arguments yet
Fresh == args # <<>> /\ ret = "none" /\ valid = "none" /\ got = <<>> /\ ~aborted

\* is_valid_move(from, to) on the drawn board
IsValidMoveCall ==
    /\ Fresh
    /\ LET ok == IsValidMove(grid, args[1], args[2])
       IN  IF ok = "panic"
           THEN aborted' = TRUE /\ UNCHANGED valid
           ELSE valid' = ok /\ UNCHANGED aborted
    /\ UNCHANGED <<grid, turn, selected, state, ret, got, args, nmoves, restarted>>

\* get_piece(to) on the drawn board
GetPieceCall ==
    /\ Fresh
    /\ LET p == GetPiece(grid, args[2])
       IN  IF p = Panic
           THEN aborted' = TRUE /\ UNCHANGED got
           ELSE got' = <<p>> /\ UNCHANGED aborted
    /\ UNCHANGED <<grid, turn, selected, state, ret, valid, args, nmoves, restarted>>

\* move_piece(from, to) on the drawn board
MovePieceCall == Fresh /\ MovePiece(args[1], args[2])

RuleNext == IsValidMoveCall \/ GetPieceCall \/ MovePieceCall

SpecRule == RuleInit /\ [][RuleNext]_vars

(***************************************************************************)
(* Properties of move_piece, checked under Spec.                           *)
(*                                                                         *)
(* Restart leaves ret = "none"; every other step of Spec is one move_piece *)
(* call, and ret is the value that call returned unless it aborted.        *)
(***************************************************************************)
At(g, c) == g[c.y][c.x]

Changed == {c \in Cells : At(grid', c) # At(grid, c)}

CallStep == ret' # "none" \/ aborted' # aborted

Succeeds == CallStep /\ ret' = "true" /\ ~aborted'

\* C1: Won is terminal: once state is Won(c) every move_piece call returns
\* false and leaves grid, turn and state unchanged, and the only change of
\* state a call ever makes is Playing -> Won(c)
WonIsTerminal ==
    [][CallStep =>
         /\ state # Playing => ret' = "false" /\ ~aborted' /\ UNCHANGED <<grid, turn, state>>
         /\ state' # state => state = Playing /\ state' \in {Won(c) : c \in Color}]_vars

\* a call was made, and refused, after Black had won
CallAfterWon == state = Won("Black") /\ ret = "false"

\* C2: a call that returns false leaves grid, turn and state as they were,
\* and move_piece(from, to) returns false whenever state is Won, from holds
\* no piece, from holds a piece of the side not to move, or is_valid_move
\* rejects the move
FailureAtomicity ==
    /\ [][CallStep /\ ret' = "false" => UNCHANGED <<grid, turn, state>>]_vars
    /\ [](\A from \in Squares, to \in Squares :
            (\/ state # Playing
             \/ GetPiece(grid, from) = None
             \/ GetPiece(grid, from).color # turn
             \/ IsValidMove(grid, from, to) # "true")
            => MovePieceRet(grid, turn, state, from, to) = "false")

\* a call was refused in the middle of a game
RefusedMidGame == state = Playing /\ ret = "false" /\ nmoves = 3

\* C3: a successful call changes exactly the cells from and to: to holds
\* the piece that stood on from, from is empty, and turn flips unless the
\* piece taken on to was the opposing General
SuccessEffect ==
    [][Succeeds =>
         \E from \in Changed, to \in Changed :
            /\ from # to
            /\ Changed = {from, to}
            /\ At(grid, from) # None
            /\ At(grid', to) = At(grid, from)
            /\ At(grid', from) = None
            /\ turn' = IF At(grid, to) = Piece(Opposite(turn), "General")
                       THEN turn ELSE Opposite(turn)]_vars

\* the Red Cannon has just taken a piece on (4,3)
CannonTook ==
    /\ ret = "true"
    /\ nmoves = 3
    /\ turn = "Black"
    /\ grid[3][4] = Piece("Red", "Cannon")

\* C4: a successful call whose destination holds the opposing General
\* leaves state = Won(mover) and turn = mover
WinningMove ==
    [][(/\ Succeeds
        /\ \E to \in Cells : /\ At(grid, to) = Piece(Opposite(turn), "General")
                             /\ At(grid', to) # At(grid, to))
       => state' = Won(turn) /\ turn' = turn]_vars

\* Red has just taken the Black General
RedHasWon == state = Won("Red") /\ turn = "Red" /\ ret = "true"

\* C5: a call succeeds only for a piece of colour turn, the k-th successful
\* move on a Board is Red's for odd k and Black's for even k, and on a fresh
\* board (4,6)->(4,5) succeeds and gives Black the turn, after which
\* (4,3)->(4,4) succeeds and gives Red the turn
TurnAlternation ==
    /\ [][Succeeds =>
            \E from \in Changed :
               /\ At(grid', from) = None
               /\ At(grid, from).color = turn
               /\ At(grid, from).color = (IF nmoves % 2 = 0 THEN "Red" ELSE "Black")]_vars
    /\ [][nmoves = 0 /\ MovePiece(Pos(4, 6), Pos(4, 5))
            => ret' = "true" /\ turn' = "Black"]_vars
    /\ [][(/\ nmoves = 1
           /\ grid[5][4] = Piece("Red", "Soldier")
           /\ MovePiece(Pos(4, 3), Pos(4, 4)))
            => ret' = "true" /\ turn' = "Red"]_vars

\* both Soldiers of the scenario have stepped forward
TwoSoldiersMoved ==
    /\ nmoves = 2
    /\ ret = "true"
    /\ turn = "Red"
    /\ grid[5][4] = Piece("Red", "Soldier")
    /\ grid[4][4] = Piece("Black", "Soldier")

(***************************************************************************)
(* Properties of Board::new and Restart, checked under Spec.               *)
(***************************************************************************)
StdBackRank(px) ==
    CASE px \in {0, 8} -> "Chariot"
      [] px \in {1, 7} -> "Horse"
      [] px \in {2, 6} -> "Elephant"
      [] px \in {3, 5} -> "Advisor"
      [] px = 4 -> "General"

StdPiece(px, py) ==
    IF py = 0 THEN Piece("Black", StdBackRank(px))
    ELSE IF py = 9 THEN Piece("Red", StdBackRank(px))
    ELSE IF <<px, py>> \in {<<1, 2>>, <<7, 2>>} THEN Piece("Black", "Cannon")
    ELSE IF <<px, py>> \in {<<1, 7>>, <<7, 7>>} THEN Piece("Red", "Cannon")
    ELSE IF <<px, py>> \in {<<0, 3>>, <<2, 3>>, <<4, 3>>, <<6, 3>>, <<8, 3>>}
         THEN Piece("Black", "Soldier")
    ELSE IF <<px, py>> \in {<<0, 6>>, <<2, 6>>, <<4, 6>>, <<6, 6>>, <<8, 6>>}
         THEN Piece("Red", "Soldier")
    ELSE None

\* C8: a Board on which move_piece has not been called yet, the first one
\* or one that Restart put in place of a played one, has the standard
\* layout, turn = Red, no selection and state = Playing
NewIsStandard ==
    ret = "none" =>
       /\ \A c \in Cells : At(grid, c) = StdPiece(c.x, c.y)
       /\ turn = "Red"
       /\ selected = <<>>
       /\ state = Playing

\* Restart has replaced a won Board
Restarted == restarted /\ ret = "none" /\ nmoves = 0

(***************************************************************************)
(* Properties of one call on any board, checked under SpecRule.            *)
(***************************************************************************)
\* C6: no call aborts: every index into grid that move_piece and
\* is_valid_move compute (destination, eye, leg, path) is inside the grid,
\* for coordinates inside and outside the grid
NeverAborts == aborted = FALSE

\* move_piece has returned for a piece asked to leave the grid
ReturnedOutside ==
    /\ args # <<>>
    /\ ret = "false"
    /\ args[1] \in Cells
    /\ At(grid, args[1]) # None
    /\ args[2] \notin Cells

\* C7: get_piece(pos) returns None without an access to grid when x >= 9 or
\* y >= 10, the content of grid[y][x] otherwise, and changes nothing
GetPieceTotal ==
    [][Fresh /\ UNCHANGED <<ret, valid>> =>
         /\ ~aborted'
         /\ got' = <<IF args[2].x >= 9 \/ args[2].y >= 10
                     THEN None ELSE grid[args[2].y][args[2].x]>>
         /\ UNCHANGED <<grid, turn, selected, state>>]_vars

\* get_piece has answered for a coordinate on the column right of the grid
GotOutside == got = <<None>> /\ args[2].x = 9

StrictlyBetween(c, a, b) ==
    \/ a.x = b.x /\ c.x = a.x /\ Min(a.y, b.y) < c.y /\ c.y < Max(a.y, b.y)
    \/ a.y = b.y /\ c.y = a.y /\ Min(a.x, b.x) < c.x /\ c.x < Max(a.x, b.x)

\* the occupied cells strictly between a and b
Between(a, b) == Cardinality({c \in Cells : StrictlyBetween(c, a, b) /\ At(grid, c) # None})

\* is_valid_move has answered for a piece of type pt moving inside the grid
Answered(pt) ==
    /\ valid # "none"
    /\ args[1] \in Cells
    /\ args[2] \in Cells
    /\ At(grid, args[1]).piece_type = pt

\* C9: a Chariot moves along a row or column only over k = 0 occupied
\* cells; a Cannon does so iff k = 0 to an empty cell and iff k = 1 to a
\* cell of the opponent; neither moves with dx # 0 and dy # 0
ChariotCannonRule ==
    \A pt \in {"Chariot", "Cannon"} :
       Answered(pt) =>
          LET from == args[1]
              to == args[2]
              straight == (from.x = to.x) # (from.y = to.y)
              k == Between(from, to)
          IN  /\ from.x # to.x /\ from.y # to.y => valid = "false"
              /\ straight /\ pt = "Chariot" /\ valid = "true" => k = 0
              /\ straight /\ pt = "Cannon" /\ At(grid, to) = None
                    => (valid = "true" <=> k = 0)
              /\ straight /\ pt = "Cannon"
                          /\ At(grid, to).color = Opposite(At(grid, from).color)
                    => (valid = "true" <=> k = 1)

\* a Cannon may take over exactly one piece
CannonJumps ==
    /\ Answered("Cannon")
    /\ valid = "true"
    /\ At(grid, args[2]) # None
    /\ Between(args[1], args[2]) = 1

Sign(n) == IF n < 0 THEN -1 ELSE IF n > 0 THEN 1 ELSE 0

\* the neighbour of from along the longer axis of the L from -> to
Leg(from, to) ==
    IF Abs(to.x - from.x) = 2
    THEN Pos(from.x + Sign(to.x - from.x), from.y)
    ELSE Pos(from.x, from.y + Sign(to.y - from.y))

\* C10: a Horse move of shape (1,2) or (2,1) to a cell inside the grid
\* that holds no friendly piece is legal iff the leg is empty
HorseLegRule ==
    Answered("Horse") =>
       LET from == args[1]
           to == args[2]
       IN  (/\ <<Abs(to.x - from.x), Abs(to.y - from.y)>> \in {<<1, 2>>, <<2, 1>>}
            /\ At(grid, to).color # At(grid, from).color)
           => (valid = "true" <=> At(grid, Leg(from, to)) = None)

\* the Horse on (0,0) is refused (2,1) because (1,0) is occupied
CornerHorseBlocked ==
    /\ Answered("Horse")
    /\ args = <<Pos(0, 0), Pos(2, 1)>>
    /\ grid[0][1] # None
    /\ grid[1][2] = None
    /\ valid = "false"

\* the destination of the answered call holds no piece of the mover's colour
NotFriendly == At(grid, args[2]).color # At(grid, args[1]).color

\* the destination is on colour c's side of the river
OwnSide(c, to) == IF c = "Red" THEN to.y >= 5 ELSE to.y <= 4

\* C11: an Elephant move with dx = 2 and dy = 2 to a cell inside the grid
\* that holds no friendly piece is legal iff the eye, the cell between from
\* and to, is empty and to is on the mover's side of the river
ElephantRule ==
    Answered("Elephant") =>
       LET from == args[1]
           to == args[2]
           eye == Pos(from.x + Sign(to.x - from.x), from.y + Sign(to.y - from.y))
       IN  (Abs(to.x - from.x) = 2 /\ Abs(to.y - from.y) = 2 /\ NotFriendly)
           => (valid = "true" <=>
                 At(grid, eye) = None /\ OwnSide(At(grid, from).color, to))

\* the Red Elephant on (2,9) is refused (0,7) because (1,8) is occupied
ElephantEyeBlocked ==
    /\ Answered("Elephant")
    /\ args = <<Pos(2, 9), Pos(0, 7)>>
    /\ grid[9][2].color = "Red"
    /\ grid[8][1] # None
    /\ grid[7][0] = None
    /\ valid = "false"

\* C12: a Soldier move to a cell that holds no friendly piece is legal iff
\* it is one orthogonal step, not backwards, and sideways only from a cell
\* across the river
SoldierRule ==
    Answered("Soldier") =>
       LET from == args[1]
           to == args[2]
           own == At(grid, from).color
           dx == Abs(to.x - from.x)
           dy == Abs(to.y - from.y)
           forward == IF own = "Red" THEN to.y <= from.y ELSE to.y >= from.y
           crossed == IF own = "Red" THEN from.y < 5 ELSE from.y > 4
       IN  NotFriendly =>
              (valid = "true" <=> dx + dy = 1 /\ forward /\ (dx = 1 => crossed))

\* the Red Soldier that has reached (4,4) may step sideways to (3,4)
SoldierSideways ==
    /\ Answered("Soldier")
    /\ args = <<Pos(4, 4), Pos(3, 4)>>
    /\ grid[4][4].color = "Red"
    /\ valid = "true"

\* the palace of colour c
InPalace(c, to) == to.x \in 3..5 /\ to.y \in (IF c = "Red" THEN 7..9 ELSE 0..2)

\* C13: a General move to a cell that holds no friendly piece is legal iff
\* dx + dy = 1 and the destination is in the owner's palace; an Advisor
\* move iff dx = 1 and dy = 1 and the destination is in the owner's palace
PalaceRule ==
    \A pt \in {"General", "Advisor"} :
       Answered(pt) =>
          LET from == args[1]
              to == args[2]
              dx == Abs(to.x - from.x)
              dy == Abs(to.y - from.y)
              step == IF pt = "General" THEN dx + dy = 1 ELSE dx = 1 /\ dy = 1
          IN  NotFriendly =>
                 (valid = "true" <=> step /\ InPalace(At(grid, from).color, to))

\* the Black Advisor on the palace corner (3,2) is refused (2,3)
AdvisorKeptIn ==
    /\ Answered("Advisor")
    /\ args = <<Pos(3, 2), Pos(2, 3)>>
    /\ grid[2][3].color = "Black"
    /\ grid[3][2] = None
    /\ valid = "false"

\* the number of pieces of colour c on the board g
Count(g, c) == Cardinality({p \in Cells : At(g, p).color = c})

\* C14: whatever the piece, move_piece(from, to) returns false when
\* from = to, to is outside the grid, from holds no piece or to holds a
\* piece of the mover's colour, and a call that returns true leaves the
\* mover as many pieces as before
Preconditions ==
    [][Fresh /\ UNCHANGED <<valid, got>> =>
         LET from == args[1]
             to == args[2]
         IN  /\ (\/ from = to
                 \/ to \notin Cells
                 \/ from \notin Cells
                 \/ At(grid, from) = None
                 \/ At(grid, to).color = At(grid, from).color)
                => ret' = "false" /\ ~aborted'
             /\ ret' = "true" => Count(grid', turn) = Count(grid, turn)]_vars

\* a Chariot was refused the neighbouring cell of a friendly piece
FriendRefused ==
    /\ args # <<>>
    /\ ret = "false"
    /\ args[1] \in Cells
    /\ args[2] \in Cells
    /\ At(grid, args[1]).piece_type = "Chariot"
    /\ Abs(args[2].x - args[1].x) + Abs(args[2].y - args[1].y) = 1
    /\ At(grid, args[2]).color = At(grid, args[1]).color

(***************************************************************************)
(* Properties of the boards that play reaches, checked under Spec.         *)
(***************************************************************************)
\* the number of pieces equal to p on the board g
Num(g, p) == Cardinality({c \in Cells : At(g, c) = p})

HasGeneral(c) == \E p \in Cells : At(grid, p) = Piece(c, "General")

\* C15: the grid never holds two Generals of one colour, and every cell
\* holds one piece or none
GeneralCount ==
    /\ \A c \in Color : Num(grid, Piece(c, "General")) <= 1
    /\ grid \in [Rows -> [Cols -> Subjects \cup {None}]]

\* the Black General has stepped forward to (4,1)
GeneralStepped == grid[1][4] = Piece("Black", "General") /\ grid[0][4] = None

\* C16: state is Playing iff both Generals are on the board and Won(c) iff
\* only the General of c is, and a call makes state Won only by moving a
\* piece onto a cell that held a General
WinByCapture ==
    /\ [](/\ state = Playing <=> HasGeneral("Red") /\ HasGeneral("Black")
          /\ \A c \in Color :
                state = Won(c) <=> HasGeneral(c) /\ ~HasGeneral(Opposite(c)))
    /\ [][CallStep /\ state' # state /\ state'.tag = "Won" =>
            \E to \in Changed : /\ At(grid, to).piece_type = "General"
                                /\ At(grid', to) # None]_vars

\* the Black Cannon stands where it took the Red General
BlackTookGeneral ==
    /\ state = Won("Black")
    /\ ret = "true"
    /\ grid[9][4] = Piece("Black", "Cannon")

\* C17: every General and every Advisor on the board is inside the palace
\* of its colour
PalaceConfinement ==
    \A p \in Cells :
       At(grid, p).piece_type \in {"General", "Advisor"}
          => InPalace(At(grid, p).color, p)

\* the Black General has walked to the edge of its palace
GeneralAtEdge == grid[2][4] = Piece("Black", "General")

\* C18: every Red Elephant is on a row y >= 5, every Black one on y <= 4
RiverConfinement ==
    \A p \in Cells :
       At(grid, p).piece_type = "Elephant" => OwnSide(At(grid, p).color, p)

\* the Red Elephant has reached the river bank on (2,5)
ElephantAtRiver == grid[5][2] = Piece("Red", "Elephant")

\* the pieces a side starts with
InitialCount(pt) == IF pt = "General" THEN 1 ELSE IF pt = "Soldier" THEN 5 ELSE 2

\* C19: a call never adds a piece of any colour and type; a successful one
\* leaves the mover as many pieces as before and takes one piece from the
\* opponent iff the destination was occupied; so a side never has more
\* than 16 pieces nor more of a type than it started with
PieceConservation ==
    /\ [][CallStep /\ grid' # grid =>
            \A p \in Subjects : Num(grid', p) <= Num(grid, p)]_vars
    /\ [][Succeeds =>
            \E to \in Changed :
               /\ At(grid', to) # None
               /\ Count(grid', turn) = Count(grid, turn)
               /\ Count(grid', Opposite(turn)) =
                     Count(grid, Opposite(turn)) - (IF At(grid, to) # None THEN 1 ELSE 0)]_vars
    /\ [](\A c \in Color :
             /\ Count(grid, c) <= 16
             /\ \A pt \in PieceType : Num(grid, Piece(c, pt)) <= InitialCount(pt))

\* each side has lost one piece
OneTakenEach ==
    /\ Count(grid, "Red") = 15
    /\ Count(grid, "Black") = 15
    /\ ret = "true"
    /\ state = Playing

====
